---- MODULE Spec2Model ----
(***************************************************************************)
(* Model of vault-cli.py: one process invocation of the command-line tool  *)
(* (main) driving VaultClient against the Obsidian Local REST API.          *)
(*                                                                         *)
(* Python values are tagged records: t is the Python type, and the value   *)
(* is in the field n (int), b (bool), s (str), l (list) or d (dict).       *)
(* A str is a sequence of characters so that len() and slicing are the     *)
(* real operations; a dict is a function from its keys; a list a sequence. *)
(* A result envelope is the Python dict {'ok':..,'data':..} /              *)
(* {'ok':..,'error':..[,'code':..]}, modelled as a record whose DOMAIN is  *)
(* the dict's key set.                                                     *)
(***************************************************************************)
EXTENDS Integers, Sequences, FiniteSets, TLC

VARIABLES
    pc,        \* position of main: "start", "sent", "done", "crashed", "usage"
    environ,   \* os.environ['OBSIDIAN_API_KEY'] (None when unset)
    args,      \* argparse namespace of the invocation
    call,      \* the VaultClient method called and its parameters
    requests,  \* requests put on the wire by urlopen, in order
    response,  \* what the transport did with the request
    returned,  \* what the VaultClient method returned (or raised) to main
    result,    \* main's local variable `result`
    output,    \* envelopes printed on stdout, in order
    exitCode   \* process exit status (None while running or after a traceback)

vars == <<pc, environ, args, call, requests, response, returned, result, output, exitCode>>

\* TLC keeps the fields of a record sorted by the order in which their names
\* first occur in the module. This record numbers the field names used below
\* in the order the record constructors write them, so that every record is
\* built already sorted.
FieldOrder == [
    t |-> 1, n |-> 2, b |-> 3, s |-> 4, l |-> 5, d |-> 6, ok |-> 7,
    method |-> 8, endpoint |-> 9, name |-> 10, created |-> 11,
    appended_to |-> 12, patched |-> 13, deleted |-> 14, context |-> 15,
    filename |-> 16, enc |-> 17, value |-> 18, text |-> 19, message |-> 20,
    errorCode |-> 21, command |-> 22, op |-> 23, path |-> 24, data |-> 25,
    error |-> 26, headers |-> 27, query |-> 28, contextLength |-> 29,
    score |-> 30, matches |-> 31, max_results |-> 32, context_length |-> 33,
    metadata_only |-> 34, max_chars |-> 35, heading |-> 36,
    frontmatter |-> 37, block |-> 38, target_type |-> 39, target |-> 40,
    operation |-> 41, content |-> 42, stdin |-> 43, period |-> 44,
    year |-> 45, month |-> 46, day |-> 47, date |-> 48, tags |-> 49,
    content_type |-> 50, kind |-> 51, exc |-> 52, code |-> 53, body |-> 54,
    reason |-> 55 ]

----------------------------------------------------------------------------
(* Bounds of the model                                                     *)

MaxHits == 3          \* longest raw hit list the server returns
MaxMatches == 4       \* longest match list of one hit
MaxContentLen == 3    \* longest note content
MaxLimit == 2         \* largest --max-chars / --max-results tried (besides the default)

(* Program constants                                                       *)

SnippetCount == 3
SnippetChars == 200
DefaultMaxResults == 10
DefaultContextLength == 100

----------------------------------------------------------------------------
(* Python values                                                           *)

None == [t |-> "None"]
PyInt(n) == [t |-> "int", n |-> n]
PyBool(b) == [t |-> "bool", b |-> b]
PyStr(s) == [t |-> "str", s |-> s]
PyList(l) == [t |-> "list", l |-> l]
PyDict(f) == [t |-> "dict", d |-> f]
EmptyDict == [t |-> "dict", d |-> [k \in {} |-> None]]

\* a non-empty string whose characters the program never looks at
Lit(s) == PyStr(<<s>>)

\* an exception propagating out of an expression
Raise(e) == [t |-> "raise", exc |-> e]
IsRaise(x) == "t" \in DOMAIN x /\ x.t = "raise"

IsDict(x) == x.t = "dict"
IsList(x) == x.t = "list"

\* bool(x): the truth value Python's `if x:` / `x and ...` uses
Truthy(x) ==
    CASE x.t = "None" -> FALSE
      [] x.t = "int"  -> x.n # 0
      [] x.t = "bool" -> x.b
      [] x.t = "str"  -> Len(x.s) > 0
      [] x.t = "list" -> Len(x.l) > 0
      [] x.t = "dict" -> DOMAIN x.d # {}

\* d.get(key, default)
DictGet(d, key, default) == IF key \in DOMAIN d.d THEN d.d[key] ELSE default

\* d.pop(key, None): the dict without the key
DictPop(d, key) == PyDict([k \in DOMAIN d.d \ {key} |-> d.d[k]])

\* d[key] = value
DictSet(d, key, value) ==
    PyDict([k \in DOMAIN d.d \cup {key} |-> IF k = key THEN value ELSE d.d[k]])

\* s[:n] for a sequence, with Python's meaning of a negative stop
SliceTo(s, n) ==
    LET stop == IF n < 0
                THEN (IF Len(s) + n < 0 THEN 0 ELSE Len(s) + n)
                ELSE (IF n > Len(s) THEN Len(s) ELSE n)
    IN  SubSeq(s, 1, stop)

Marker == <<"\n", ".", ".", ".", "[", "t", "r", "u", "n", "c", "a", "t", "e", "d", "]">>


----------------------------------------------------------------------------
(* datetime.strptime(date, '%Y-%m-%d') as main uses it                     *)

Digits == {"0", "1", "2", "3", "4", "5", "6", "7", "8", "9"}
NonZeroDigits == Digits \ {"0"}

DigitVal(c) ==
    CASE c = "0" -> 0 [] c = "1" -> 1 [] c = "2" -> 2 [] c = "3" -> 3 [] c = "4" -> 4
      [] c = "5" -> 5 [] c = "6" -> 6 [] c = "7" -> 7 [] c = "8" -> 8 [] c = "9" -> 9

\* the text matched by %m (1[0-2]|0[1-9]|[1-9]) or %d
\* (3[01]|[12]\d|0[1-9]|[1-9]| [1-9]) at position p of s: its length, 0 for no match.
\* The alternatives are tried in this order, two-character ones first.
MonthLen(s, p) ==
    IF p + 1 <= Len(s) /\ (\/ s[p] = "1" /\ s[p + 1] \in {"0", "1", "2"}
                           \/ s[p] = "0" /\ s[p + 1] \in NonZeroDigits)
    THEN 2
    ELSE IF p <= Len(s) /\ s[p] \in NonZeroDigits THEN 1 ELSE 0

DayLen(s, p) ==
    IF p + 1 <= Len(s) /\ (\/ s[p] = "3" /\ s[p + 1] \in {"0", "1"}
                           \/ s[p] \in {"1", "2"} /\ s[p + 1] \in Digits
                           \/ s[p] = "0" /\ s[p + 1] \in NonZeroDigits
                           \/ s[p] = " " /\ s[p + 1] \in NonZeroDigits)
    THEN 2
    ELSE IF p <= Len(s) /\ s[p] \in NonZeroDigits THEN 1 ELSE 0

\* int() of the one or two characters at p ("05", " 5" and "5" are all 5)
FieldVal(s, p, n) ==
    IF n = 1 THEN DigitVal(s[p])
    ELSE (IF s[p] = " " THEN 0 ELSE 10 * DigitVal(s[p])) + DigitVal(s[p + 1])

IsLeap(y) == y % 4 = 0 /\ (y % 100 # 0 \/ y % 400 = 0)

DaysInMonth(y, m) ==
    IF m = 2 THEN (IF IsLeap(y) THEN 29 ELSE 28)
    ELSE IF m \in {4, 6, 9, 11} THEN 30 ELSE 31

\* dt, or ValueError: [ok |-> TRUE, year, month, day] or [ok |-> FALSE]
Strptime(s) ==
    LET bad == [ok |-> FALSE]
    IN  IF ~(Len(s) >= 5 /\ (\A i \in 1..4 : s[i] \in Digits) /\ s[5] = "-")
        THEN bad
        ELSE LET ml == MonthLen(s, 6)
             IN  IF ml = 0 \/ ~(6 + ml <= Len(s) /\ s[6 + ml] = "-")
                 THEN bad
                 ELSE LET dp == 6 + ml + 1
                          dl == DayLen(s, dp)
                      IN  \* no match, or "unconverted data remains"
                          IF dl = 0 \/ dp + dl - 1 # Len(s)
                          THEN bad
                          ELSE LET y == 1000 * DigitVal(s[1]) + 100 * DigitVal(s[2])
                                        + 10 * DigitVal(s[3]) + DigitVal(s[4])
                                   m == FieldVal(s, 6, ml)
                                   d == FieldVal(s, dp, dl)
                               IN  \* datetime's own range checks
                                   IF y < 1 \/ d > DaysInMonth(y, m)
                                   THEN bad
                                   ELSE [ok |-> TRUE, year |-> y, month |-> m, day |-> d]

----------------------------------------------------------------------------
(* VaultClient._request: normalising the outcome of the one HTTP request   *)

Success(data) == [ok |-> TRUE, data |-> data]
Failure(message) == [ok |-> FALSE, error |-> message]
FailureWithCode(message, code) == [ok |-> FALSE, error |-> message, code |-> code]

CodeText(code) ==
    CASE code = 400 -> "400" [] code = 404 -> "404" [] code = 500 -> "500"

\* str(e) of an HTTPError
StatusText(code) == PyStr(<<"HTTP Error ", CodeText(code)>>)

\* 2xx with an empty body
EmptyBodyResult == Success(None)

\* 2xx with a body: json.loads(content.decode('utf-8')), falling back to the text.
\* Bytes that are not UTF-8 raise UnicodeDecodeError, which is no JSONDecodeError
\* and no URLError: neither handler catches it.
BodyResult(body) ==
    CASE body.enc = "bad_utf8" -> Raise("UnicodeDecodeError")
      [] body.enc = "text"     -> Success(PyStr(body.text))
      [] body.enc = "json"     -> Success(body.value)

\* a variant that also fills `data` in the error envelope
HTTPErrorResultWithData(code, body) ==
    CASE body.enc = "bad_utf8" -> Raise("UnicodeDecodeError")
      [] OTHER -> [ok |-> FALSE, data |-> None, error |-> StatusText(code), code |-> code]

\* except HTTPError: the body is decoded outside the inner try
HTTPErrorResult(code, body) ==
    CASE body.enc = "bad_utf8" -> Raise("UnicodeDecodeError")
      [] body.enc \in {"no_fp", "empty", "text"} -> FailureWithCode(StatusText(code), code)
      [] body.enc = "json" ->
            IF IsDict(body.value)
            THEN FailureWithCode(DictGet(body.value, "message", StatusText(code)), code)
            ELSE FailureWithCode(StatusText(code), code)

\* except URLError
ConnectionFailedResult(reason) == Failure(PyStr(<<"Connection failed: ", reason>>))

\* the try statement of _request applied to what the transport did
Normalize(outcome) ==
    CASE outcome.kind = "ok" ->
            IF outcome.body.enc = "empty" THEN EmptyBodyResult ELSE BodyResult(outcome.body)
      [] outcome.kind = "http_error" -> HTTPErrorResult(outcome.code, outcome.body)
      [] outcome.kind = "url_error"  -> ConnectionFailedResult(outcome.reason)
      \* an exception of urlopen/read that is neither HTTPError nor URLError
      [] outcome.kind = "other_error" -> Raise(outcome.exc)

\* headers of the request: Authorization, the caller's, then Content-Type if truthy
RequestHeaders(apiKey, headers, contentType) ==
    LET names == {"Authorization"} \cup DOMAIN headers
                 \cup (IF Truthy(contentType) THEN {"Content-Type"} ELSE {})
    IN  [h \in names |->
            IF h = "Content-Type" /\ Truthy(contentType) THEN contentType
            ELSE IF h \in DOMAIN headers THEN headers[h]
            ELSE PyStr(<<"Bearer ">> \o apiKey.s)]

BuildRequest(apiKey, method, path, data, headers, contentType) ==
    [method |-> method, path |-> path, data |-> data,
     headers |-> RequestHeaders(apiKey, headers, contentType)]

\* http.client refuses a header whose value is None before anything is sent
Sendable(req) == \A h \in DOMAIN req.headers : req.headers[h].t # "None"

NoHeaders == [h \in {} |-> None]


----------------------------------------------------------------------------
(* PathCodec and the request of each VaultClient method                    *)

\* urllib.parse.quote(path, safe=''): characters of the model's alphabet
QuoteChar(c) ==
    CASE c = "/" -> "%2F"
      [] c = " " -> "%20"
      [] OTHER   -> c

Quote(s) == [i \in 1..Len(s) |-> QuoteChar(s[i])]

RECURSIVE RStripSlash(_)
RStripSlash(s) ==
    IF Len(s) > 0 /\ s[Len(s)] = "/" THEN RStripSlash(SubSeq(s, 1, Len(s) - 1)) ELSE s

VaultPath(path) == [endpoint |-> "vault", name |-> Quote(path.s)]

ListPath(path) ==
    IF Truthy(path)
    THEN [endpoint |-> "vault", name |-> Quote(RStripSlash(path.s)) \o <<"/">>]
    ELSE [endpoint |-> "vault", name |-> <<>>]

SearchPath(query, contextLength) ==
    [endpoint |-> "search", query |-> Quote(query.s), contextLength |-> contextLength]

\* a variant that tests only the year
SegmentOf(x) == IF x.t = "int" THEN x.n ELSE 0
DailyPathByYear(period, year, month, day) ==
    IF Truthy(year)
    THEN [endpoint |-> "periodic", period |-> period,
          date |-> <<SegmentOf(year), SegmentOf(month), SegmentOf(day)>>]
    ELSE [endpoint |-> "periodic", period |-> period, date |-> <<>>]

\* daily_append's choice of path; the date segments are the integers themselves,
\* which an f-string prints in decimal without padding
DailyPath(period, year, month, day) ==
    IF Truthy(year) /\ Truthy(month) /\ Truthy(day)
    THEN [endpoint |-> "periodic", period |-> period,
          date |-> <<year.n, month.n, day.n>>]
    ELSE [endpoint |-> "periodic", period |-> period, date |-> <<>>]

PatchHeaders(operation, targetType, target) ==
    [h \in {"Operation", "Target-Type", "Target"} |->
        CASE h = "Operation"   -> operation
          [] h = "Target-Type" -> targetType
          [] h = "Target"      -> target]

GetNoteHeaders == [h \in {"Accept"} |-> Lit("application/vnd.olrapi.note+json")]

TextMarkdown == Lit("text/markdown")
ApplicationJson == Lit("application/json")

\* the request a VaultClient method hands to _request
RequestOf(apiKey, c) ==
    CASE c.op = "search" ->
            BuildRequest(apiKey, "POST", SearchPath(c.query, c.context_length),
                         None, NoHeaders, None)
      [] c.op = "get_note" ->
            BuildRequest(apiKey, "GET", VaultPath(c.path), None, GetNoteHeaders, None)
      [] c.op = "list_dir" ->
            BuildRequest(apiKey, "GET", ListPath(c.path), None, NoHeaders, None)
      [] c.op = "create_note" ->
            BuildRequest(apiKey, "PUT", VaultPath(c.path), c.content, NoHeaders, TextMarkdown)
      [] c.op = "append_note" ->
            BuildRequest(apiKey, "POST", VaultPath(c.path), c.content, NoHeaders, TextMarkdown)
      [] c.op = "patch_note" ->
            BuildRequest(apiKey, "PATCH", VaultPath(c.path), c.content,
                         PatchHeaders(c.operation, c.target_type, c.target), c.content_type)
      [] c.op = "daily_append" ->
            BuildRequest(apiKey, "POST", DailyPath(c.period, c.year, c.month, c.day),
                         c.content, NoHeaders, TextMarkdown)
      [] c.op = "delete_note" ->
            BuildRequest(apiKey, "DELETE", VaultPath(c.path), None, NoHeaders, None)

\* get_note: metadata-only requests drop `content` from a decoded dict
GetNoteStrip(ret, metadataOnly) ==
    IF ~IsRaise(ret) /\ ret.ok /\ metadataOnly /\ IsDict(ret.data)
    THEN [ret EXCEPT !.data = DictPop(ret.data, "content")]
    ELSE ret

\* what the VaultClient method gives back to main: an envelope or an exception
ClientReturn(c, outcome) ==
    IF c.op = "get_note"
    THEN GetNoteStrip(Normalize(outcome), c.metadata_only)
    ELSE Normalize(outcome)

----------------------------------------------------------------------------
(* main: shaping of the result per command                                 *)

\* the first exception of a sequence of evaluated items, if any
HasRaise(items) == \E i \in 1..Len(items) : IsRaise(items[i])
FirstRaise(items) ==
    items[CHOOSE i \in 1..Len(items) :
            IsRaise(items[i]) /\ \A j \in 1..(i - 1) : ~IsRaise(items[j])]

\* m.get('context', '')[:200]
Snippet(m) ==
    IF ~IsDict(m) THEN Raise("AttributeError")
    ELSE LET context == DictGet(m, "context", PyStr(<<>>))
         IN  CASE context.t = "str"  -> PyStr(SliceTo(context.s, SnippetChars))
               [] context.t = "list" -> PyList(SliceTo(context.l, SnippetChars))
               [] OTHER              -> Raise("TypeError")

\* [m.get('context', '')[:200] for m in matches[:3]]
Snippets(matches) ==
    CASE matches.t = "list" ->
            LET items == [j \in 1..Len(SliceTo(matches.l, SnippetCount)) |->
                            Snippet(matches.l[j])]
            IN  IF HasRaise(items) THEN FirstRaise(items) ELSE PyList(items)
      [] matches.t = "str" -> Raise("AttributeError")
      [] OTHER             -> Raise("TypeError")

\* the compact record of one hit
SimplifyEntry(item) ==
    IF ~IsDict(item) THEN Raise("AttributeError")
    ELSE LET entry == [path  |-> DictGet(item, "filename", PyStr(<<>>)),
                       score |-> DictGet(item, "score", PyInt(0))]
             matches == DictGet(item, "matches", PyList(<<>>))
         IN  IF Truthy(matches)
             THEN LET snippets == Snippets(matches)
                  IN  IF IsRaise(snippets) THEN snippets
                      ELSE PyDict([k \in {"path", "score", "snippets"} |->
                                     IF k = "snippets" THEN snippets ELSE entry[k]])
             ELSE PyDict(entry)

\* result['data'] = result['data'][:args.max_results]
LimitResults(data, maxResults) == PyList(SliceTo(data.l, maxResults))

SearchShape(a, ret) ==
    IF ret.ok /\ IsList(ret.data)
    THEN LET limited == LimitResults(ret.data, a.max_results.n)
             simplified == [i \in 1..Len(limited.l) |-> SimplifyEntry(limited.l[i])]
         IN  IF HasRaise(simplified) THEN FirstRaise(simplified)
             ELSE [ret EXCEPT !.data = PyList(simplified)]
    ELSE ret

\* content[:args.max_chars] + '\n...[truncated]'
Truncated(content, maxChars) == PyStr(SliceTo(content, maxChars) \o Marker)

GetShape(a, ret) ==
    IF ret.ok /\ Truthy(a.max_chars) /\ IsDict(ret.data)
    THEN LET content == DictGet(ret.data, "content", PyStr(<<>>))
             limit == a.max_chars.n
         IN  CASE content.t = "str" ->
                    IF Len(content.s) > limit
                    THEN [ret EXCEPT !.data =
                            DictSet(ret.data, "content", Truncated(content.s, limit))]
                    ELSE ret
               \* a list has a length but cannot be joined to the marker
               [] content.t = "list" ->
                    IF Len(content.l) > limit THEN Raise("TypeError") ELSE ret
               [] content.t = "dict" ->
                    IF Cardinality(DOMAIN content.d) > limit THEN Raise("TypeError") ELSE ret
               \* None and numbers have no len()
               [] OTHER -> Raise("TypeError")
    ELSE ret

\* the patch target main picks from the three options
PatchTargetType(a) ==
    IF Truthy(a.heading) THEN Lit("heading")
    ELSE IF Truthy(a.frontmatter) THEN Lit("frontmatter")
    ELSE Lit("block")

PatchTarget(a) ==
    IF Truthy(a.heading) THEN a.heading
    ELSE IF Truthy(a.frontmatter) THEN a.frontmatter
    ELSE a.block

\* a variant that keys the content type on the heading option
PatchContentTypeByHeading(a) == IF Truthy(a.heading) THEN TextMarkdown ELSE ApplicationJson

\* Use JSON content type for frontmatter
PatchContentType(a) == IF Truthy(a.frontmatter) THEN ApplicationJson ELSE TextMarkdown

\* the acknowledgment record that replaces the server's body
Acknowledgment(a) ==
    CASE a.command = "create" -> PyDict([created |-> a.path])
      [] a.command = "append" -> PyDict([appended_to |-> a.path])
      [] a.command = "patch"  ->
            PyDict([patched |-> a.path, target |-> PatchTarget(a)])
      [] a.command = "daily"  -> PyDict([appended_to |-> PyStr(a.period.s \o <<" note">>)])
      [] a.command = "delete" -> PyDict([deleted |-> a.path])

\* a variant that forgets the `if result['ok']` guard
AckShapeUnguarded(a, ret) ==
    [k \in DOMAIN ret \cup {"data"} |-> IF k = "data" THEN Acknowledgment(a) ELSE ret[k]]

AckShape(a, ret) == IF ret.ok THEN [ret EXCEPT !.data = Acknowledgment(a)] ELSE ret

InvalidDateResult(date) ==
    Failure(PyStr(<<"Invalid date format: ">> \o date.s \o <<". Use YYYY-MM-DD">>))

NoApiKeyResult == Failure(Lit("OBSIDIAN_API_KEY environment variable not set"))

\* exceptions that `except ValueError` catches
ValueErrors == {"ValueError", "UnicodeDecodeError"}

\* the daily branch's try/except around strptime AND the client call
DailyCatch(a, ret) ==
    IF IsRaise(ret) /\ Truthy(a.date) /\ ret.exc \in ValueErrors
    THEN InvalidDateResult(a.date)
    ELSE ret

\* main from the return of the client method to the value it prints:
\* an envelope, or the exception that ends the process
Shape(a, ret) ==
    LET got == IF a.command = "daily" THEN DailyCatch(a, ret) ELSE ret
    IN  IF IsRaise(got) THEN got
        ELSE CASE a.command = "search" -> SearchShape(a, got)
               [] a.command = "get"    -> GetShape(a, got)
               [] a.command = "list"   -> got
               [] OTHER                -> AckShape(a, got)

\* sys.exit(0 if result and result.get('ok') else 1)
ExitStatus(r) == IF r.ok THEN PyInt(0) ELSE PyInt(1)


\* get_content: --content if given and non-empty, else stdin
GetContent(a, stdinText) ==
    IF Truthy(a.content) THEN a.content
    ELSE IF a.stdin THEN stdinText
    ELSE PyStr(<<>>)

----------------------------------------------------------------------------
(* Inputs: command lines and transport outcomes                            *)

Chars == <<"a", "b", "c">>
\* a text of n characters
Text(n) == [i \in 1..n |-> Chars[((i - 1) % 3) + 1]]

IndexChar(i) == <<"1", "2", "3", "4", "5", "6", "7", "8", "9">>[i]


\* --max-results and --max-chars are type=int: any integer, negative ones too
LimitValues == (-1)..MaxLimit

ApiKeys == {None, PyStr(<<>>), Lit("key")}
NotePaths == {PyStr(<<"d", "/", "n", " ", "1">>)}
ListPaths == {PyStr(<<>>), PyStr(<<"d">>), PyStr(<<"d", "/">>)}
Queries == {Lit("q")}
Periods == {Lit("daily"), Lit("weekly"), Lit("monthly"), Lit("quarterly"), Lit("yearly")}
Operations == {Lit("append"), Lit("prepend"), Lit("replace")}
TargetNames == {PyStr(<<>>), Lit("x")}
TargetOptions == {"heading", "frontmatter", "block"}
StdinText == Lit("piped")
\* one of --content / --stdin (a required mutually exclusive group)
ContentSources == {[content |-> Lit("typed"), stdin |-> FALSE],
                   [content |-> None, stdin |-> TRUE]}

\* --date values (None when the option is absent)
DateArgs ==
    {None,
     PyStr(<<>>),
     PyStr(<<"2", "0", "2", "4", "-", "0", "3", "-", "0", "5">>),
     PyStr(<<"2", "0", "2", "4", "-", "3", "-", "5">>),
     PyStr(<<"2", "0", "2", "4", "-", "1", "3", "-", "4", "0">>),
     PyStr(<<"2", "0", "2", "4", "-", "0", "2", "-", "3", "0">>),
     PyStr(<<"2", "0", "2", "3", "-", "0", "2", "-", "2", "9">>),
     PyStr(<<"2", "0", "2", "4", "-", "0", "2", "-", "2", "9">>),
     PyStr(<<"2", "0", "2", "4", "-", "0", "3", "-", "0", "5", "x">>),
     PyStr(<<"0", "0", "0", "0", "-", "0", "1", "-", "0", "1">>),
     PyStr(<<"2", "0", "2", "4", "-", "0", "3", "-", " ", "5">>),
     PyStr(<<"1", "9", "0", "0", "-", "0", "2", "-", "2", "9">>),
     PyStr(<<"t", "o", "d", "a", "y">>)}

\* match j of a hit whose contexts start at length base
Match(base, j) == PyDict([context |-> PyStr(Text(base + j - 1))])
Matches(k, base) == PyList([j \in 1..k |-> Match(base, j)])

HitName(i) == PyStr(<<"f", IndexChar(i)>>)

\* the shapes of raw hits the server may return; i is the hit's position
HitKindIds == 1..12
HitKinds == Cardinality(HitKindIds)
Hit(kind, i) ==
    CASE kind = 1 -> PyDict([filename |-> HitName(i), score |-> PyInt(i),
                             matches |-> Matches(MaxMatches, SnippetChars - 1)])
      [] kind = 2 -> PyDict([filename |-> HitName(i), score |-> PyInt(i),
                             matches |-> Matches(0, 0)])
      [] kind = 3 -> PyDict([filename |-> HitName(i)])
      [] kind = 4 -> PyDict([score |-> PyInt(i), matches |-> Matches(2, 0)])
      [] kind = 5 -> PyDict([filename |-> HitName(i), score |-> PyInt(i),
                             matches |-> Matches(SnippetCount, SnippetChars)])
      [] kind = 6 -> PyDict([filename |-> HitName(i), score |-> PyInt(i),
                             matches |-> PyList(<<EmptyDict, Match(2, 1)>>)])
      [] kind = 7 -> PyDict([filename |-> None, score |-> Lit("high"), matches |-> None])
      [] kind = 8 -> PyInt(i)
      [] kind = 9 -> PyDict([filename |-> HitName(i),
                             matches |-> PyDict([context |-> PyStr(Text(2))])])
      [] kind = 10 -> PyDict([filename |-> HitName(i),
                              matches |-> PyList(<<Match(1, 1), PyInt(1)>>)])
      [] kind = 11 -> PyDict([filename |-> HitName(i),
                              matches |-> PyList(<<PyDict([context |-> None])>>)])
      [] kind = 12 -> PyDict([filename |-> HitName(i), score |-> PyInt(0),
                              matches |-> Matches(1, SnippetChars + 1)])

\* a raw hit list of n hits whose shapes run through the kinds from s on
HitList(n, s) == PyList([i \in 1..n |-> Hit(((s + i - 1) % HitKinds) + 1, i)])
HitLists == {HitList(n, s) : n \in 0..MaxHits, s \in 0..(HitKinds - 1)}

Tags == PyList(<<Lit("x")>>)
ContentValues == {PyStr(Text(n)) : n \in 0..MaxContentLen} \cup {None, PyInt(7)}
\* decoded note payloads, with and without `content` and other fields
NotePayloads ==
    {PyDict([content |-> c, tags |-> Tags]) : c \in ContentValues}
    \cup {PyDict([content |-> c]) : c \in ContentValues}
    \cup {PyDict([tags |-> Tags]), EmptyDict}

ScalarValues == {None, PyInt(0), Lit("text")}

JsonBody(value) == [enc |-> "json", value |-> value]
TextBody == [enc |-> "text", text |-> <<"o", "k">>]

\* bodies of a 2xx response that the model answers a command with
OkBodies(command) ==
    {[enc |-> "empty"], [enc |-> "bad_utf8"], TextBody}
    \cup {JsonBody(v) : v \in ScalarValues}
    \cup {JsonBody(v) : v \in NotePayloads}
    \cup {JsonBody(v) : v \in IF command = "search" THEN HitLists
                              ELSE {HitList(0, 0), HitList(2, 0)}}

StatusCodes == {404, 500}
ErrorBodies ==
    {[enc |-> "no_fp"], [enc |-> "empty"], [enc |-> "bad_utf8"], TextBody,
     JsonBody(PyDict([message |-> Lit("Not Found"), errorCode |-> PyInt(40400)])),
     JsonBody(PyDict([message |-> None])),
     JsonBody(PyDict([errorCode |-> PyInt(40400)])),
     JsonBody(PyList(<<PyInt(1)>>))}

\* exceptions of urlopen/read that are neither HTTPError nor URLError
OtherErrors == {"RemoteDisconnected", "IncompleteRead"}
Reasons == {"[Errno 111] Connection refused"}

\* date components a caller of daily_append may pass: None or a calendar value
YearArgs == {None, PyInt(2024)}
MonthArgs == {None, PyInt(3), PyInt(12)}
DayArgs == {None, PyInt(5), PyInt(31)}

----------------------------------------------------------------------------
(* The state machine: one run of main                                      *)

Init ==
    /\ pc = "start"
    /\ environ \in ApiKeys
    /\ args = None
    /\ call = None
    /\ requests = <<>>
    /\ response = None
    /\ returned = None
    /\ result = None
    /\ output = <<>>
    /\ exitCode = None

\* print(json.dumps(result)); sys.exit(...)
PrintAndExit(r) ==
    /\ output' = Append(output, r)
    /\ exitCode' = ExitStatus(r)
    /\ pc' = "done"

\* an uncaught exception: traceback on stderr, nothing on stdout, status 1
Crash ==
    /\ output' = output
    /\ exitCode' = PyInt(1)
    /\ pc' = "crashed"

\* main up to the client call for the parsed arguments a: the API key check,
\* then the VaultClient method c, whose request goes on the wire if urlopen
\* accepts its headers
Begin(a, c) ==
    /\ pc = "start"
    /\ args' = a
    /\ UNCHANGED <<environ, response>>
    /\ IF ~Truthy(environ)
       THEN /\ output' = Append(output, NoApiKeyResult)
            /\ exitCode' = PyInt(1)
            /\ pc' = "done"
            /\ UNCHANGED <<call, requests, returned, result>>
       ELSE /\ call' = c
            /\ result' = result
            /\ IF Sendable(RequestOf(environ, c))
               THEN /\ requests' = Append(requests, RequestOf(environ, c))
                    /\ pc' = "sent"
                    /\ UNCHANGED <<returned, output, exitCode>>
               ELSE /\ returned' = Raise("TypeError")
                    /\ requests' = requests
                    /\ Crash

Search ==
    \E q \in Queries, n \in LimitValues \cup {DefaultMaxResults} :
        LET a == [command |-> "search", query |-> q, max_results |-> PyInt(n),
                  context_length |-> PyInt(DefaultContextLength)]
        IN  Begin(a, [op |-> "search", query |-> q, context_length |-> a.context_length])

Get ==
    \E p \in NotePaths, m \in BOOLEAN, n \in {None} \cup {PyInt(k) : k \in LimitValues} :
        LET a == [command |-> "get", path |-> p, metadata_only |-> m, max_chars |-> n]
        IN  Begin(a, [op |-> "get_note", path |-> p, metadata_only |-> m])

ListDir ==
    \E p \in ListPaths :
        Begin([command |-> "list", path |-> p], [op |-> "list_dir", path |-> p])

Create ==
    \E p \in NotePaths, src \in ContentSources :
        LET a == [command |-> "create", path |-> p, content |-> src.content,
                  stdin |-> src.stdin]
        IN  Begin(a, [op |-> "create_note", path |-> p,
                      content |-> GetContent(a, StdinText)])

AppendNote ==
    \E p \in NotePaths, src \in ContentSources :
        LET a == [command |-> "append", path |-> p, content |-> src.content,
                  stdin |-> src.stdin]
        IN  Begin(a, [op |-> "append_note", path |-> p,
                      content |-> GetContent(a, StdinText)])

Patch ==
    \E p \in NotePaths, opt \in TargetOptions, t \in TargetNames, o \in Operations,
       src \in ContentSources :
        LET a == [command |-> "patch", path |-> p,
                  heading     |-> IF opt = "heading" THEN t ELSE None,
                  frontmatter |-> IF opt = "frontmatter" THEN t ELSE None,
                  block       |-> IF opt = "block" THEN t ELSE None,
                  operation |-> o, content |-> src.content, stdin |-> src.stdin]
        IN  Begin(a, [op |-> "patch_note", path |-> p,
                      target_type |-> PatchTargetType(a), target |-> PatchTarget(a),
                      operation |-> o, content |-> GetContent(a, StdinText),
                      content_type |-> PatchContentType(a)])

\* daily with a date that strptime rejects ends here, before any client call
DailyInvalidDate(a) ==
    /\ pc = "start"
    /\ args' = a
    /\ UNCHANGED <<environ, response, call, requests, returned>>
    /\ IF ~Truthy(environ)
       THEN /\ output' = Append(output, NoApiKeyResult)
            /\ exitCode' = PyInt(1)
            /\ pc' = "done"
            /\ result' = result
       ELSE /\ result' = InvalidDateResult(a.date)
            /\ PrintAndExit(InvalidDateResult(a.date))

Daily ==
    \E d \in DateArgs, per \in Periods, src \in ContentSources :
        LET a == [command |-> "daily", content |-> src.content, stdin |-> src.stdin,
                  period |-> per, date |-> d]
            dt == Strptime(d.s)
        IN  IF Truthy(d)
            THEN IF dt.ok
                 THEN Begin(a, [op |-> "daily_append", content |-> GetContent(a, StdinText),
                                period |-> per, year |-> PyInt(dt.year),
                                month |-> PyInt(dt.month), day |-> PyInt(dt.day)])
                 ELSE DailyInvalidDate(a)
            ELSE Begin(a, [op |-> "daily_append", content |-> GetContent(a, StdinText),
                           period |-> per, year |-> None, month |-> None, day |-> None])

Delete ==
    \E p \in NotePaths :
        Begin([command |-> "delete", path |-> p], [op |-> "delete_note", path |-> p])

\* no sub-command: print_help and exit 1, before anything else
NoCommand ==
    /\ pc = "start"
    /\ args' = [command |-> "none"]
    /\ pc' = "usage"
    /\ exitCode' = PyInt(1)
    /\ UNCHANGED <<environ, call, requests, response, returned, result, output>>

\* what `result` holds when an exception ends main after the client returned
ResultAtCrash(a, ret) ==
    IF IsRaise(ret) THEN None
    ELSE IF a.command = "search" /\ ret.ok /\ IsList(ret.data)
         THEN [ret EXCEPT !.data = LimitResults(ret.data, a.max_results.n)]
         ELSE ret

\* the transport's outcome arrives: _request normalises it, the client method
\* returns, main shapes the result, prints it and exits
Complete(outcome) ==
    /\ pc = "sent"
    /\ response' = outcome
    /\ returned' = ClientReturn(call, outcome)
    /\ UNCHANGED <<environ, args, call, requests>>
    /\ LET final == Shape(args, ClientReturn(call, outcome))
       IN  IF IsRaise(final)
           THEN /\ result' = ResultAtCrash(args, ClientReturn(call, outcome))
                /\ Crash
           ELSE /\ result' = final
                /\ PrintAndExit(final)

ResponseOk ==
    /\ pc = "sent"
    /\ \E body \in OkBodies(args.command) : Complete([kind |-> "ok", body |-> body])

ResponseHTTPError ==
    \E code \in StatusCodes, body \in ErrorBodies :
        Complete([kind |-> "http_error", code |-> code, body |-> body])

ConnectionFailed ==
    \E reason \in Reasons : Complete([kind |-> "url_error", reason |-> reason])

TransportError ==
    \E exc \in OtherErrors : Complete([kind |-> "other_error", exc |-> exc])

Next ==
    \/ Search
    \/ Get
    \/ ListDir
    \/ Create
    \/ AppendNote
    \/ Patch
    \/ Daily
    \/ Delete
    \/ NoCommand
    \/ ResponseOk
    \/ ResponseHTTPError
    \/ ConnectionFailed
    \/ TransportError

Spec == Init /\ [][Next]_vars

----------------------------------------------------------------------------
(* VaultClient.daily_append called on its own, with any combination of     *)
(* date components                                                         *)

DailyAppendCall ==
    /\ pc = "start"
    /\ environ.t = "str"
    /\ \E per \in Periods, y \in YearArgs, m \in MonthArgs, d \in DayArgs :
         LET c == [op |-> "daily_append", content |-> Lit("typed"), period |-> per,
                   year |-> y, month |-> m, day |-> d]
         IN  /\ call' = c
             /\ requests' = Append(requests, RequestOf(environ, c))
    /\ pc' = "called"
    /\ UNCHANGED <<environ, args, response, returned, result, output, exitCode>>

\* the method returns what _request made of the transport's outcome
ClientReturns ==
    /\ pc = "called"
    /\ \E outcome \in {[kind |-> "ok", body |-> b] : b \in OkBodies("daily")}
                      \cup {[kind |-> "http_error", code |-> c, body |-> b] :
                                c \in StatusCodes, b \in ErrorBodies}
                      \cup {[kind |-> "url_error", reason |-> r] : r \in Reasons}
                      \cup {[kind |-> "other_error", exc |-> e] : e \in OtherErrors} :
         /\ response' = outcome
         /\ returned' = ClientReturn(call, outcome)
    /\ pc' = "returned"
    /\ UNCHANGED <<environ, args, call, requests, result, output, exitCode>>

NextClient ==
    \/ Next
    \/ DailyAppendCall
    \/ ClientReturns

SpecClient == Init /\ [][NextClient]_vars


----------------------------------------------------------------------------
(* Vocabulary of the properties                                            *)

Commands == {"search", "get", "list", "create", "append", "patch", "daily", "delete"}

ArgsParsed == "command" \in DOMAIN args
Ran(command) == ArgsParsed /\ args.command = command
Responded == "kind" \in DOMAIN response
IsEnvelope(x) == "ok" \in DOMAIN x

\* the envelope invariant of one envelope
WellFormed(e) ==
    /\ ("data" \in DOMAIN e) # ("error" \in DOMAIN e)
    /\ e.ok = ("data" \in DOMAIN e)

\* the decoded JSON payload of a 2xx response, when there is one
DecodedJson == Responded /\ response.kind = "ok" /\ response.body.enc = "json"
Decoded == response.body.value

Min(a, b) == IF a < b THEN a ELSE b

----------------------------------------------------------------------------
\* C1: every envelope the program produces -- returned by the request layer
\* or the client method, held in main's result, or printed -- has exactly one
\* of data/error, and ok is true exactly when it is data.
EnvelopeInvariant ==
    /\ \A i \in 1..Len(output) : WellFormed(output[i])
    /\ IsEnvelope(result) => WellFormed(result)
    /\ IsEnvelope(returned) => WellFormed(returned)

\* a success envelope printed after search shaping, with at least one entry
EnvelopeInvariantWitness ==
    /\ pc = "done" /\ Ran("search")
    /\ output[1].ok /\ IsList(output[1].data) /\ Len(output[1].data.l) > 0
    /\ output[1] # returned

\* C2: an invocation of one of the eight commands that has ended has printed
\* exactly one envelope, whatever the transport did and whatever was decoded.
OneEnvelopePerInvocation ==
    (ArgsParsed /\ args.command \in Commands /\ pc \in {"done", "crashed"})
        => Len(output) = 1

\* C3: daily with an explicit date string that is not a calendar date written
\* YYYY-MM-DD never issues a request and ends with a failure envelope.
IsCalendarDate(s) ==
    /\ Len(s) = 10
    /\ \A i \in {1, 2, 3, 4, 6, 7, 9, 10} : s[i] \in Digits
    /\ s[5] = "-" /\ s[8] = "-"
    /\ LET y == 1000 * DigitVal(s[1]) + 100 * DigitVal(s[2])
                + 10 * DigitVal(s[3]) + DigitVal(s[4])
           m == 10 * DigitVal(s[6]) + DigitVal(s[7])
           d == 10 * DigitVal(s[9]) + DigitVal(s[10])
       IN  y >= 1 /\ m \in 1..12 /\ d \in 1..DaysInMonth(y, m)

InvalidDateNeverRequests ==
    (Ran("daily") /\ args.date.t = "str" /\ ~IsCalendarDate(args.date.s))
        => /\ requests = <<>>
           /\ pc # "crashed"
           /\ pc = "done" => ~output[1].ok

\* C4: get with a limit L on a decoded note whose content is a string: content
\* no longer than L is unchanged, longer content becomes its first L characters
\* followed by the marker.
TruncationToLimit ==
    (/\ pc = "done" /\ Ran("get") /\ ~args.metadata_only /\ args.max_chars.t = "int"
     /\ DecodedJson /\ IsDict(Decoded) /\ "content" \in DOMAIN Decoded.d
     /\ Decoded.d.content.t = "str")
        => LET content == Decoded.d.content.s
               L == args.max_chars.n
           IN  /\ output[1].ok /\ IsDict(output[1].data)
               /\ "content" \in DOMAIN output[1].data.d
               /\ output[1].data.d.content =
                    IF Len(content) <= L THEN PyStr(content)
                    ELSE PyStr([i \in 1..L |-> content[i]] \o Marker)

\* C5: search on a decoded list of N hits with maximum M prints the first
\* min(N, M) hits in order, each as path/score and, unless the hit has no
\* matches, snippets: the first 3 contexts cut to 200 characters.
MatchList(hit) ==
    IF "matches" \in DOMAIN hit.d /\ IsList(hit.d.matches) THEN hit.d.matches.l ELSE <<>>

ShapedAs(entry, hit) ==
    /\ IsDict(entry)
    /\ entry.d.path = (IF "filename" \in DOMAIN hit.d THEN hit.d.filename ELSE PyStr(<<>>))
    /\ entry.d.score = (IF "score" \in DOMAIN hit.d THEN hit.d.score ELSE PyInt(0))
    /\ IF MatchList(hit) = <<>>
       THEN DOMAIN entry.d = {"path", "score"}
       ELSE /\ DOMAIN entry.d = {"path", "score", "snippets"}
            /\ IsList(entry.d.snippets)
            /\ Len(entry.d.snippets.l) = Min(SnippetCount, Len(MatchList(hit)))
            /\ \A j \in 1..Len(entry.d.snippets.l) :
                 LET context == IF "context" \in DOMAIN MatchList(hit)[j].d
                                THEN MatchList(hit)[j].d.context.s ELSE <<>>
                 IN  entry.d.snippets.l[j] =
                        PyStr([n \in 1..Min(SnippetChars, Len(context)) |-> context[n]])

SearchShaping ==
    (pc = "done" /\ Ran("search") /\ DecodedJson /\ IsList(Decoded))
        => LET N == Len(Decoded.l)
               M == args.max_results.n
               kept == IF Min(N, M) < 0 THEN 0 ELSE Min(N, M)
           IN  /\ output[1].ok /\ IsList(output[1].data)
               /\ Len(output[1].data.l) = kept
               /\ \A i \in 1..kept : ShapedAs(output[1].data.l[i], Decoded.l[i])

\* C6: a failure envelope of the request layer, or of the local date check, is
\* printed as it is: no field added, removed or changed by get_note or main.
FailurePassThrough ==
    /\ (pc = "done" /\ Responded /\ IsEnvelope(Normalize(response))
        /\ ~Normalize(response).ok)
          => /\ returned = Normalize(response)
             /\ result = Normalize(response)
             /\ output = <<Normalize(response)>>
    /\ (pc = "done" /\ Ran("daily") /\ ~Responded /\ IsEnvelope(result))
          => output = <<InvalidDateResult(args.date)>>

\* a failure envelope came back to a command that shapes its successes
FailurePassThroughWitness ==
    /\ pc = "done" /\ Ran("patch") /\ Responded
    /\ response.kind = "http_error" /\ "code" \in DOMAIN output[1]

\* C7: a printed failure envelope has a code exactly when the transport
\* answered with an HTTP error, and then it is that response's status code.
StatusCodeIffHTTPError ==
    (pc = "done" /\ ~output[1].ok)
        => /\ ("code" \in DOMAIN output[1]) <=> (Responded /\ response.kind = "http_error")
           /\ (Responded /\ response.kind = "http_error") => output[1].code = response.code

\* C8: a successful metadata-only get of a decoded note prints the note
\* without content and with every other field as decoded, whatever the limit.
MetadataOnlyOmitsContent ==
    (/\ pc = "done" /\ Ran("get") /\ args.metadata_only
     /\ DecodedJson /\ IsDict(Decoded))
        => /\ output[1].ok /\ IsDict(output[1].data)
           /\ DOMAIN output[1].data.d = DOMAIN Decoded.d \ {"content"}
           /\ \A k \in DOMAIN output[1].data.d : output[1].data.d[k] = Decoded.d[k]

\* C9: every request of daily_append is a POST to the periodic endpoint of the
\* period; it has the date segments year/month/day, as plain integers, when
\* all three components were passed and none otherwise. From the command
\* line: no --date gives no segments, --date 2024-03-05 gives 2024/3/5.
DailyCalled == "op" \in DOMAIN call /\ call.op = "daily_append"

DailyRequestPath ==
    \A i \in 1..Len(requests) :
        DailyCalled
            => LET r == requests[i]
                   given == {c \in {"year", "month", "day"} : call[c].t # "None"}
               IN  /\ r.method = "POST"
                   /\ r.path.endpoint = "periodic"
                   /\ r.path.period = call.period
                   /\ given = {"year", "month", "day"}
                        => r.path.date = <<call.year.n, call.month.n, call.day.n>>
                   /\ given # {"year", "month", "day"} => r.path.date = <<>>
                   /\ Ran("daily") =>
                        /\ call.period = args.period
                        /\ given \in {{}, {"year", "month", "day"}}
                        /\ args.date = None => r.path.date = <<>>
                        /\ args.date = PyStr(<<"2", "0", "2", "4", "-", "0", "3", "-", "0", "5">>)
                             => r.path.date = <<2024, 3, 5>>

\* daily --date 2024-03-05 has put its request on the wire
DailyRequestPathWitness ==
    /\ Ran("daily") /\ Len(requests) = 1
    /\ args.date = PyStr(<<"2", "0", "2", "4", "-", "0", "3", "-", "0", "5">>)
    /\ requests[1].path.date # <<>>

\* C10: the PATCH request of a patch with one target option given carries
\* Content-Type application/json for a frontmatter target and text/markdown for
\* a heading or block, and its Target-Type names the option given.
Selected(a) == {o \in TargetOptions : a[o].t # "None"}

PatchContentTypeFollowsTarget ==
    \A i \in 1..Len(requests) :
        (Ran("patch") /\ Cardinality(Selected(args)) = 1)
            => LET r == requests[i]
                   option == CHOOSE o \in Selected(args) : TRUE
               IN  /\ r.method = "PATCH"
                   /\ r.headers["Target-Type"] = Lit(option)
                   /\ r.headers["Content-Type"] =
                        (IF option = "frontmatter" THEN ApplicationJson ELSE TextMarkdown)
                   /\ (r.headers["Content-Type"] = ApplicationJson)
                        <=> (r.headers["Target-Type"] = Lit("frontmatter"))

\* a frontmatter patch is on the wire
PatchContentTypeWitness ==
    /\ Ran("patch") /\ Len(requests) = 1
    /\ args.frontmatter.t = "str"
    /\ requests[1].headers["Content-Type"] = ApplicationJson

====
